---- MODULE Spec2Model ----
(***************************************************************************)
(* Model of the WebsiteCloner class of index.js: clone(), downloadPage(),  *)
(* processAssets(), rewriteLinks(), getLocalPath(), processDownloadQueue(),*)
(* downloadAsset() and processCSSFile(), on the Node.js event loop.        *)
(*                                                                         *)
(* Strings that the program takes apart (URL paths, file paths) are        *)
(* sequences of tokens: "/" and "." are tokens of their own, every other   *)
(* token is a run of name characters.  "/s.css" is <<"/","s",".","css">>.  *)
(***************************************************************************)
EXTENDS Integers, Sequences, FiniteSets, TLC

\* ------------------------------------------------------------------------
\* Bounds of the model
\* ------------------------------------------------------------------------
\* number of <img> elements of the page that exercises the concurrency ceiling
NumImgs == 6

\* ------------------------------------------------------------------------
\* Program constants
\* ------------------------------------------------------------------------
maxConcurrent == 5

\* ------------------------------------------------------------------------
\* Generic helpers on sequences
\* ------------------------------------------------------------------------
Last(s) == s[Len(s)]

Front(s) == SubSeq(s, 1, Len(s) - 1)

\* number of positions of s holding x
Count(s, x) == Cardinality({i \in 1..Len(s) : s[i] = x})

\* largest index of token x in s, 0 when absent (String.lastIndexOf + 1)
LastIndexOf(s, x) ==
  IF \E i \in 1..Len(s) : s[i] = x
  THEN CHOOSE i \in 1..Len(s) : s[i] = x /\ \A j \in (i+1)..Len(s) : s[j] # x
  ELSE 0

\* smallest index of element x in s, 0 when absent (String.indexOf + 1)
IndexOf(s, x) ==
  IF \E i \in 1..Len(s) : s[i] = x
  THEN CHOOSE i \in 1..Len(s) : s[i] = x /\ \A j \in 1..(i-1) : s[j] # x
  ELSE 0

\* ------------------------------------------------------------------------
\* Strings of the program: references as written in HTML / CSS
\* ------------------------------------------------------------------------
\* A reference string: an optional origin ("" when the reference is relative),
\* the path tokens, the query ("" or "?..."), the fragment ("" or "#...").
\* valid = FALSE is a string that new URL(ref, base) rejects.
Str(origin, p, search, hash) ==
  [valid |-> TRUE, origin |-> origin, path |-> p, search |-> search, hash |-> hash]

\* a plain path string without origin, query or fragment
PathStr(p) == Str("", p, "", "")

EmptyStr == PathStr(<< >>)

InvalidStr == [valid |-> FALSE, origin |-> "", path |-> <<"[">>, search |-> "", hash |-> ""]

\* the origin of the site that is cloned, and a foreign origin
SiteOrigin == "https://ex.test"

OtherOrigin == "https://cdn.test"

\* ------------------------------------------------------------------------
\* URL objects
\* ------------------------------------------------------------------------
\* directory part of a URL path: everything up to and including the last "/"
DirOf(p) == SubSeq(p, 1, LastIndexOf(p, "/"))

\* new URL(ref, base) for a string the parser accepts; href is the whole
\* record (origin, pathname, search and hash all take part in .href)
NewURL(ref, base) ==
  IF ref.origin # ""
  THEN [origin |-> ref.origin,
        pathname |-> IF ref.path = << >> THEN <<"/">> ELSE ref.path,
        search |-> ref.search, hash |-> ref.hash]
  ELSE IF ref.path # << >> /\ Head(ref.path) = "/"
  THEN [origin |-> base.origin, pathname |-> ref.path,
        search |-> ref.search, hash |-> ref.hash]
  ELSE IF ref.path # << >>
  THEN [origin |-> base.origin, pathname |-> DirOf(base.pathname) \o ref.path,
        search |-> ref.search, hash |-> ref.hash]
  ELSE [origin |-> base.origin, pathname |-> base.pathname,
        search |-> IF ref.search # "" THEN ref.search ELSE base.search,
        hash |-> ref.hash]

\* the constructor's this.baseUrl
baseUrl == [origin |-> SiteOrigin, pathname |-> <<"/">>, search |-> "", hash |-> ""]

\* path.extname: the tokens from the last "." of the last path segment on,
\* empty when there is no "." or the "." is the segment's first character
extname(p) ==
  LET seg == SubSeq(p, LastIndexOf(p, "/") + 1, Len(p))
      dot == LastIndexOf(seg, ".")
  IN IF dot <= 1 THEN << >> ELSE SubSeq(seg, dot, Len(seg))

\* getLocalPath without the removal of the leading slash
getLocalPath_keepSlash(url) ==
  LET p1 == url.pathname
      p2 == IF p1 = << >> \/ Last(p1) = "/" THEN p1 \o <<"index", ".", "html">> ELSE p1
  IN IF extname(p2) = << >> THEN p2 \o <<".", "html">> ELSE p2

\* getLocalPath without the 'index.html' of directory paths
getLocalPath_noIndex(url) ==
  LET p0 == url.pathname
      p1 == IF p0 # << >> /\ Head(p0) = "/" THEN Tail(p0) ELSE p0
  IN IF extname(p1) = << >> THEN p1 \o <<".", "html">> ELSE p1

getLocalPath(url) ==
  LET p0 == url.pathname
      p1 == IF p0 # << >> /\ Head(p0) = "/" THEN Tail(p0) ELSE p0
      p2 == IF p1 = << >> \/ Last(p1) = "/" THEN p1 \o <<"index", ".", "html">> ELSE p1
  IN IF extname(p2) = << >> THEN p2 \o <<".", "html">> ELSE p2

\* ------------------------------------------------------------------------
\* File paths below outputDir
\* ------------------------------------------------------------------------
RECURSIVE SplitSegs(_)
\* the non-empty segments of a path (path.join / path.relative normalise
\* repeated and leading separators away)
SplitSegs(p) ==
  IF p = << >> THEN << >>
  ELSE LET k == IndexOf(p, "/")
       IN IF k = 0 THEN << p >>
          ELSE IF k = 1 THEN SplitSegs(Tail(p))
          ELSE << SubSeq(p, 1, k - 1) >> \o SplitSegs(SubSeq(p, k + 1, Len(p)))

RECURSIVE JoinSegs(_)
JoinSegs(segs) ==
  IF segs = << >> THEN << >>
  ELSE IF Len(segs) = 1 THEN segs[1]
  ELSE segs[1] \o <<"/">> \o JoinSegs(Tail(segs))

\* path.join(this.outputDir, localPath), as a path relative to outputDir
JoinOut(localPath) == JoinSegs(SplitSegs(localPath))

\* path.dirname of a file path below outputDir, as segments
DirSegs(filePath) == Front(SplitSegs(filePath))

RECURSIVE CommonPrefixLen(_, _)
CommonPrefixLen(a, b) ==
  IF a = << >> \/ b = << >> \/ Head(a) # Head(b) THEN 0
  ELSE 1 + CommonPrefixLen(Tail(a), Tail(b))

\* path.relative(from, to) for a directory `from' and a file `to', both
\* given below outputDir
PathRelative(fromSegs, toPath) ==
  LET toSegs == SplitSegs(toPath)
      k == CommonPrefixLen(fromSegs, toSegs)
      ups == [i \in 1..(Len(fromSegs) - k) |-> <<".", ".">>]
  IN JoinSegs(ups \o SubSeq(toSegs, k + 1, Len(toSegs)))

\* ------------------------------------------------------------------------
\* The site that is cloned: what the server holds (the program's input)
\* ------------------------------------------------------------------------
SiteUrl(p) == [origin |-> SiteOrigin, pathname |-> p, search |-> "", hash |-> ""]

\* one url(...) occurrence of a stylesheet text: the matched string and
\* whether it is written with double quotes (the rewrite always quotes)
CssUrl(ref, quoted) == [ref |-> ref, quoted |-> quoted]

\* the stylesheet text served for a URL, as its url(...) occurrences in
\* order; << >> for a resource that holds none (images, scripts, fonts)
SiteCss(url) ==
  IF url.origin # SiteOrigin THEN << >>
  ELSE IF url.pathname = <<"/", "s", ".", "css">>
  THEN << CssUrl(PathStr(<<"bg", ".", "png">>), FALSE) >>
  ELSE IF url.pathname = <<"/", "a", ".", "css">>
  THEN << CssUrl(PathStr(<<"b", ".", "css">>), TRUE),
          CssUrl(PathStr(<<"bg", ".", "png">>), FALSE) >>
  ELSE IF url.pathname = <<"/", "b", ".", "css">>
  THEN << CssUrl(PathStr(<<"a", ".", "css">>), FALSE),
          CssUrl(PathStr(<<"b", ".", "css">>), FALSE) >>
  ELSE IF url.pathname = <<"/", "css", "/", "t", ".", "css">>
  THEN << CssUrl(PathStr(<<"/", "img", "/", "x", ".", "png">>), FALSE),
          CssUrl(InvalidStr, FALSE),
          CssUrl(PathStr(<<"f", ".", "woff">>), TRUE) >>
  ELSE << >>

\* an element of the entry page: its tag, its href/src attribute (EmptyStr
\* when absent) and the URL tokens of its srcset attribute
Elem(tag, ref, srcset) == [tag |-> tag, ref |-> ref, srcset |-> srcset]

Link(p) == Elem("link", PathStr(p), << >>)

Img(p) == Elem("img", PathStr(p), << >>)

\* the entry pages the model is run on
Pages ==
  {"e2e", "dup", "mutual", "many", "nested", "self",
   "collide", "frag", "srcset", "slashes", "overwrite"}

PageBody(pg) ==
  CASE pg = "e2e" ->
         << Link(<<"/", "s", ".", "css">>), Img(<<"pic", ".", "png">>) >>
    [] pg = "dup" ->
         << Link(<<"/", "s", ".", "css">>),
            Elem("a", PathStr(<<"/", "about">>), << >>),
            Link(<<"/", "s", ".", "css">>) >>
    [] pg = "mutual" ->
         << Link(<<"/", "a", ".", "css">>), Link(<<"/", "b", ".", "css">>),
            Img(<<"bg", ".", "png">>) >>
    [] pg = "many" ->
         [k \in 1..NumImgs |-> Img(<<"i", ToString(k), ".", "png">>)]
    [] pg = "nested" ->
         << Elem("script", Str(OtherOrigin, <<"/", "lib", ".", "js">>, "", ""), << >>),
            Link(<<"css", "/", "t", ".", "css">>),
            Elem("img", InvalidStr, << >>),
            Elem("img", EmptyStr,
                 << PathStr(<<"x1", ".", "png">>), PathStr(<<"x2", ".", "png">>) >>),
            Elem("a", Str(OtherOrigin, <<"/">>, "", ""), << >>),
            Elem("a", Str("", << >>, "", "#top"), << >>) >>
    [] pg = "self" ->
         << Img(<<"/">>), Link(<<"/", "s", ".", "css">>),
            Elem("a", PathStr(<<"docs", "/">>), << >>) >>
    [] pg = "collide" ->
         << Elem("img", Str("", <<"a", ".", "png">>, "?v=1", ""), << >>),
            Elem("img", Str("", <<"a", ".", "png">>, "?v=2", ""), << >>) >>
    [] pg = "frag" ->
         << Elem("img", Str("", <<"/", "a", ".", "svg">>, "", "#x"), << >>),
            Elem("img", Str("", <<"/", "a", ".", "svg">>, "", "#y"), << >>) >>
    [] pg = "srcset" ->
         << Elem("img", PathStr(<<"a", ".", "png">>),
                 << PathStr(<<"x1", ".", "png">>) >>),
            Elem("a", PathStr(<<"/", "team">>), << >>) >>
    [] pg = "slashes" ->
         << Elem("script", PathStr(<<"/", "about">>), << >>),
            Elem("img", Str(SiteOrigin, <<"/", "/", "d", ".", "png">>, "", ""), << >>),
            Elem("img", Str("", <<"/", "docs", "/">>, "?p=1", "#top"), << >>) >>
    [] pg = "overwrite" ->
         << Elem("img", Str("", <<"/", "index", ".", "html">>, "?x", ""), << >>),
            Elem("a", PathStr(<<"/", "docs", "/">>), << >>) >>

\* ------------------------------------------------------------------------
\* processAssets, updateAssetReference, rewriteLinks
\* ------------------------------------------------------------------------
Asset(type, url, element) == [type |-> type, url |-> url, element |-> element]

RECURSIVE FindByTag(_, _, _, _)
\* $('link[rel="stylesheet"]'), $('script[src]'), $('img[src]') .each: one
\* asset per matching element whose href/src is a non-empty string
FindByTag(d, tag, type, i) ==
  IF i > Len(d) THEN << >>
  ELSE (IF d[i].tag = tag /\ d[i].ref # EmptyStr
        THEN << Asset(type, d[i].ref, i) >> ELSE << >>)
       \o FindByTag(d, tag, type, i + 1)

RECURSIVE FindSrcset(_, _)
\* $('img[srcset]').each: one asset per URL token of the srcset list
FindSrcset(d, i) ==
  IF i > Len(d) THEN << >>
  ELSE (IF d[i].tag = "img"
        THEN [k \in 1..Len(d[i].srcset) |-> Asset("img", d[i].srcset[k], i)]
        ELSE << >>)
       \o FindSrcset(d, i + 1)

\* an asset search that takes the hyperlinks too
FindAssets_withLinks(d) ==
  FindByTag(d, "link", "css", 1) \o FindByTag(d, "script", "js", 1)
    \o FindByTag(d, "img", "img", 1) \o FindSrcset(d, 1)
    \o FindByTag(d, "a", "img", 1)

FindAssets(d) ==
  FindByTag(d, "link", "css", 1) \o FindByTag(d, "script", "js", 1)
    \o FindByTag(d, "img", "img", 1) \o FindSrcset(d, 1)

Item(url, localPath, type) == [url |-> url, localPath |-> localPath, type |-> type]

\* every branch of updateAssetReference sets the element's href/src
updateAssetReference(d, asset, localPath) ==
  IF asset.type \in {"css", "js", "img"}
  THEN [d EXCEPT ![asset.element].ref = PathStr(<<".", "/">> \o localPath)]
  ELSE d

\* the admission test of processAssets
NotDownloaded(downloaded, url) == url \notin downloaded

RECURSIVE DownloadAssets(_, _, _, _)
\* the "for (const asset of assets)" loop of processAssets: the resulting
\* download queue and document
DownloadAssets(assets, q, d, downloaded) ==
  IF assets = << >> THEN [queue |-> q, dom |-> d]
  ELSE LET asset == Head(assets)
       IN IF ~asset.url.valid
          THEN DownloadAssets(Tail(assets), q, d, downloaded)
          ELSE LET assetUrl == NewURL(asset.url, baseUrl)
                   localPath == getLocalPath(assetUrl)
                   q2 == IF NotDownloaded(downloaded, assetUrl)
                         THEN Append(q, Item(assetUrl, localPath, asset.type))
                         ELSE q
               IN DownloadAssets(Tail(assets), q2,
                                 updateAssetReference(d, asset, localPath), downloaded)

processAssets(d, q, downloaded) == DownloadAssets(FindAssets(d), q, d, downloaded)

\* href.startsWith('#'), 'mailto:' or 'tel:'
SkippedHref(href) ==
  \/ href.origin = "" /\ href.path = << >> /\ href.search = "" /\ href.hash # ""
  \/ href.origin \in {"mailto:", "tel:"}

rewriteLinks(d) ==
  [i \in 1..Len(d) |->
     IF d[i].tag = "a" /\ d[i].ref # EmptyStr /\ ~SkippedHref(d[i].ref)
        /\ d[i].ref.valid /\ NewURL(d[i].ref, baseUrl).origin = baseUrl.origin
     THEN [d[i] EXCEPT !.ref =
             PathStr(<<".", "/">> \o getLocalPath(NewURL(d[i].ref, baseUrl)))]
     ELSE d[i]]

\* ------------------------------------------------------------------------
\* processCSSFile: the url(...) loop over the text read from disk
\* ------------------------------------------------------------------------
\* String.replace(match[0], replacement): the first occurrence only
ReplaceFirst(text, old, new) ==
  LET k == IndexOf(text, old)
  IN IF k = 0 THEN text ELSE [text EXCEPT ![k] = new]

\* the admission test of processCSSFile with its negation lost
CssNotDownloaded_inverted(downloaded, url) == url \in downloaded

\* the admission test of processCSSFile
CssNotDownloaded(downloaded, url) == url \notin downloaded

\* the type processCSSFile gives the items it enqueues
CssItemType == "asset"

RECURSIVE CssLoop(_, _, _, _, _, _)
\* the "while ((match = urlRegex.exec(cssContent)) !== null)" loop: the
\* resulting download queue and updatedCSS
CssLoop(matches, q, updatedCSS, downloaded, filePath, cssUrl) ==
  IF matches = << >> THEN [queue |-> q, css |-> updatedCSS]
  ELSE LET match == Head(matches)
       IN IF ~match.ref.valid
          THEN CssLoop(Tail(matches), q, updatedCSS, downloaded, filePath, cssUrl)
          ELSE LET fullAssetUrl == NewURL(match.ref, cssUrl)
                   localPath == getLocalPath(fullAssetUrl)
                   q2 == IF CssNotDownloaded(downloaded, fullAssetUrl)
                         THEN Append(q, Item(fullAssetUrl, localPath, CssItemType))
                         ELSE q
                   relativePath == PathRelative(DirSegs(filePath), JoinOut(localPath))
               IN CssLoop(Tail(matches), q2,
                          ReplaceFirst(updatedCSS, match,
                                       CssUrl(PathStr(relativePath), TRUE)),
                          downloaded, filePath, cssUrl)

\* ------------------------------------------------------------------------
\* State
\* ------------------------------------------------------------------------
VARIABLES
  entry,            \* which entry page the server returns for baseUrl
  phase,            \* where clone() stands
  dom,              \* the cheerio document $ of downloadPage
  downloadedFiles,  \* this.downloadedFiles
  downloadQueue,    \* this.downloadQueue
  activeDownloads,  \* this.activeDownloads
  loop,             \* where processDownloadQueue stands
  calls,            \* every downloadAsset call started so far, in start order
  files,            \* the files below outputDir: path -> content
  fetched,          \* the URLs downloadAsset has requested, in request order
  enqueued,         \* number of downloadQueue.push calls so far
  writes,           \* number of fs.writeFile calls that have written each path
  errors            \* the red console lines: what failed

vars == << entry, phase, dom, downloadedFiles, downloadQueue, activeDownloads,
           loop, calls, files, fetched, enqueued, writes, errors >>

\* a downloadAsset call: its item, the await it stands at ("landed" /
\* "cssLanded": the pending writeFile has put its bytes on disk and its
\* callback has not run yet; "returned": resolved
\* with its .finally callback pending; "settled" / "caught": over, through
\* the normal path / through the catch block), and the locals cssContent and
\* updatedCSS of its processCSSFile
Call(item, pc) == [item |-> item, pc |-> pc, cssContent |-> << >>, updatedCSS |-> << >>]

\* content of a file: which write produced it, of which URL, and its text
Content(kind, of, css, d) == [kind |-> kind, of |-> of, css |-> css, dom |-> d]

WriteFile(fs, filePath, content) ==
  [p \in DOMAIN fs \cup {filePath} |-> IF p = filePath THEN content ELSE fs[p]]

\* one more fs.writeFile has written filePath
CountWrite(w, filePath) ==
  [p \in DOMAIN w \cup {filePath} |->
     IF p = filePath THEN (IF p \in DOMAIN w THEN w[p] ELSE 0) + 1 ELSE w[p]]

IndexHtml == <<"index", ".", "html">>

Init ==
  /\ entry \in Pages
  /\ phase = "ensureDir"
  /\ dom = << >>
  /\ downloadedFiles = {}
  /\ downloadQueue = << >>
  /\ activeDownloads = 0
  /\ loop = "idle"
  /\ calls = << >>
  /\ files = << >>
  /\ fetched = << >>
  /\ enqueued = 0
  /\ writes = << >>
  /\ errors = {}

\* ------------------------------------------------------------------------
\* clone and downloadPage
\* ------------------------------------------------------------------------
\* clone: await fs.ensureDir(this.outputDir) succeeds; downloadPage issues
\* its axios.get
EnsureDirOk ==
  /\ phase = "ensureDir"
  /\ phase' = "fetchingPage"
  /\ UNCHANGED << entry, dom, downloadedFiles, downloadQueue, activeDownloads,
                  loop, calls, files, writes, fetched, enqueued, errors >>

\* clone: fs.ensureDir(this.outputDir) rejects; clone() rejects
EnsureDirFail ==
  /\ phase = "ensureDir"
  /\ phase' = "failed"
  /\ UNCHANGED << entry, dom, downloadedFiles, downloadQueue, activeDownloads,
                  loop, calls, files, writes, fetched, enqueued, errors >>

\* downloadPage: axios.get resolved; cheerio.load, processAssets,
\* rewriteLinks, then the write of the page is issued
PageFetchOk ==
  /\ phase = "fetchingPage"
  /\ LET r == processAssets(PageBody(entry), downloadQueue, downloadedFiles)
     IN /\ downloadQueue' = r.queue
        /\ enqueued' = enqueued + (Len(r.queue) - Len(downloadQueue))
        /\ dom' = rewriteLinks(r.dom)
  /\ phase' = "savingPage"
  /\ UNCHANGED << entry, downloadedFiles, activeDownloads, loop, calls, files, writes,
                  fetched, errors >>

\* downloadPage where an error response (a 404 body) is parsed and processed
\* like a page
PageFetchFail_parsed ==
  /\ phase = "fetchingPage"
  /\ errors' = errors \cup {[what |-> "page-fetch", url |-> baseUrl]}
  /\ LET r == processAssets(PageBody(entry), downloadQueue, downloadedFiles)
     IN /\ downloadQueue' = r.queue
        /\ enqueued' = enqueued + (Len(r.queue) - Len(downloadQueue))
        /\ dom' = rewriteLinks(r.dom)
  /\ phase' = "draining"
  /\ loop' = "running"
  /\ UNCHANGED << entry, downloadedFiles, activeDownloads, calls, files, writes, fetched >>

\* downloadPage: axios.get rejected (network error, timeout, non-2xx); the
\* catch block logs, downloadPage resolves and clone() goes on to
\* processDownloadQueue, which runs up to its first await
PageFetchFail ==
  /\ phase = "fetchingPage"
  /\ errors' = errors \cup {[what |-> "page-fetch", url |-> baseUrl]}
  /\ phase' = "draining"
  /\ loop' = "running"
  /\ UNCHANGED << entry, dom, downloadedFiles, downloadQueue, activeDownloads,
                  calls, files, writes, fetched, enqueued >>

\* downloadPage: ensureDir and writeFile of index.html resolved
PageSaveOk ==
  /\ phase = "savingPage"
  /\ files' = WriteFile(files, IndexHtml, Content("page", baseUrl, << >>, dom))
  /\ writes' = CountWrite(writes, IndexHtml)
  /\ downloadedFiles' = downloadedFiles \cup {baseUrl}
  /\ phase' = "draining"
  /\ loop' = "running"
  /\ UNCHANGED << entry, dom, downloadQueue, activeDownloads, calls, fetched,
                  enqueued, errors >>

\* downloadPage: ensureDir or writeFile of index.html rejected; the catch
\* block logs and downloadPage resolves
PageSaveFail ==
  /\ phase = "savingPage"
  /\ errors' = errors \cup {[what |-> "page-save", url |-> baseUrl]}
  /\ phase' = "draining"
  /\ loop' = "running"
  /\ UNCHANGED << entry, dom, downloadedFiles, downloadQueue, activeDownloads,
                  calls, files, writes, fetched, enqueued >>

\* ------------------------------------------------------------------------
\* processDownloadQueue
\* ------------------------------------------------------------------------
\* the while condition without its activeDownloads half
LoopCondition_queueOnly(q, active) == Len(q) > 0

\* the while condition
LoopCondition(q, active) == Len(q) > 0 \/ active > 0

\* the ceiling test written with <= instead of <
CanStart_offByOne(q, active) == Len(q) > 0 /\ active <= maxConcurrent

\* the if condition inside the loop
CanStart(q, active) == Len(q) > 0 /\ active < maxConcurrent

\* a .finally callback that does not give the slot back
Finally_noDecrement(active) == active

\* the .finally callback
Finally(active) == active - 1

\* One pass through the if branch: shift, activeDownloads++, and the call of
\* downloadAsset up to its first await.  An item whose URL is already in
\* downloadedFiles returns at once: its promise is resolved, but the
\* .finally callback is a microtask and waits until the loop awaits.
StartDownload ==
  /\ phase = "draining" /\ loop = "running"
  /\ LoopCondition(downloadQueue, activeDownloads)
  /\ CanStart(downloadQueue, activeDownloads)
  /\ LET item == Head(downloadQueue)
     IN /\ downloadQueue' = Tail(downloadQueue)
        /\ activeDownloads' = activeDownloads + 1
        /\ IF item.url \in downloadedFiles
           THEN /\ calls' = Append(calls, Call(item, "returned"))
                /\ fetched' = fetched
           ELSE /\ calls' = Append(calls, Call(item, "fetching"))
                /\ fetched' = Append(fetched, item.url)
  /\ UNCHANGED << entry, phase, dom, downloadedFiles, loop, files, writes, enqueued, errors >>

\* the calls whose promise is resolved and whose .finally callback is pending
Returned(cs) == {i \in 1..Len(cs) : cs[i].pc = "returned"}

RECURSIVE RunFinally(_, _)
\* the pending .finally callbacks run, one per resolved call
RunFinally(active, n) == IF n = 0 THEN active ELSE RunFinally(Finally(active), n - 1)

\* The else branch: the loop awaits the 100 ms timer.  The microtasks queued
\* during the synchronous run (the .finally callbacks of the calls that
\* returned at once) run now.
Sleep ==
  /\ phase = "draining" /\ loop = "running"
  /\ LoopCondition(downloadQueue, activeDownloads)
  /\ ~CanStart(downloadQueue, activeDownloads)
  /\ loop' = "sleeping"
  /\ calls' = [i \in 1..Len(calls) |->
                 IF i \in Returned(calls) THEN [calls[i] EXCEPT !.pc = "settled"]
                 ELSE calls[i]]
  /\ activeDownloads' = RunFinally(activeDownloads, Cardinality(Returned(calls)))
  /\ UNCHANGED << entry, phase, dom, downloadedFiles, downloadQueue, files, writes,
                  fetched, enqueued, errors >>

\* the timer fires and the loop goes back to its while condition
Wake ==
  /\ phase = "draining" /\ loop = "sleeping"
  /\ loop' = "running"
  /\ UNCHANGED << entry, phase, dom, downloadedFiles, downloadQueue,
                  activeDownloads, calls, files, writes, fetched, enqueued, errors >>

\* the while condition is false: processDownloadQueue resolves and clone()
\* prints "Website cloning completed!"
LoopExit ==
  /\ phase = "draining" /\ loop = "running"
  /\ ~LoopCondition(downloadQueue, activeDownloads)
  /\ loop' = "exited"
  /\ phase' = "done"
  /\ UNCHANGED << entry, dom, downloadedFiles, downloadQueue, activeDownloads,
                  calls, files, writes, fetched, enqueued, errors >>

\* ------------------------------------------------------------------------
\* downloadAsset and processCSSFile: the continuations after each await.
\* They are I/O callbacks: none runs while the loop runs synchronously, and
\* nothing but the loop's own exit test keeps them from running after it.
\* ------------------------------------------------------------------------
IoTurn == loop # "running"

\* a catch block that puts the failed item back for another try
CatchQueue_retry(q, item) == Append(q, item)

\* the catch block of downloadAsset leaves the queue alone
CatchQueue(q, item) == q

\* downloadAsset resolves on its normal path; its .finally callback runs in
\* the same microtask checkpoint
Resolve(i) ==
  /\ calls' = [calls EXCEPT ![i].pc = "settled"]
  /\ activeDownloads' = Finally(activeDownloads)

\* downloadAsset's catch block logs and the call resolves; its .finally
\* callback runs in the same microtask checkpoint
Catch(i) ==
  /\ calls' = [calls EXCEPT ![i].pc = "caught"]
  /\ activeDownloads' = Finally(activeDownloads)
  /\ downloadQueue' = CatchQueue(downloadQueue, calls[i].item)
  /\ errors' = errors \cup {[what |-> "asset", url |-> calls[i].item.url]}

\* axios.get resolved: ensureDir and writeFile are issued
FetchOk(i) ==
  /\ IoTurn /\ calls[i].pc = "fetching"
  /\ calls' = [calls EXCEPT ![i].pc = "writing"]
  /\ UNCHANGED << entry, phase, dom, downloadedFiles, downloadQueue,
                  activeDownloads, loop, files, writes, fetched, enqueued, errors >>

\* axios.get rejected: timeout, network error or non-2xx status
FetchFail(i) ==
  /\ IoTurn /\ calls[i].pc = "fetching"
  /\ Catch(i)
  /\ UNCHANGED << entry, phase, dom, downloadedFiles, loop, files, writes, fetched, enqueued >>

\* a processCSSFile call that downloadAsset does not await: the download
\* resolves, and gives its slot back, while the stylesheet is still to be
\* scanned
AwaitProcessCSSFile_detached(active) == Finally(active)

\* downloadAsset awaits processCSSFile: the download keeps its slot
AwaitProcessCSSFile(active) == active

\* what the writeFile of downloadAsset puts on disk
Downloaded(item) == Content("download", item.url, SiteCss(item.url), << >>)

\* another call has a writeFile or a readFile pending on the path call i
\* writes: only then can anything tell the moment the bytes of i land from
\* the moment its callback runs
Contended(i) ==
  \E j \in 1..Len(calls) :
    /\ j # i
    /\ calls[j].item.localPath = calls[i].item.localPath
    /\ calls[j].pc \in {"writing", "cssRead", "cssWrite"}

\* The writeFile of downloadAsset puts its bytes on disk.  This happens at
\* some moment before its callback runs: two writeFile calls that are pending
\* on one path may land in one order and call back in the other.
WriteLand(i) ==
  /\ IoTurn /\ calls[i].pc = "writing" /\ Contended(i)
  /\ files' = WriteFile(files, JoinOut(calls[i].item.localPath),
                        Downloaded(calls[i].item))
  /\ writes' = CountWrite(writes, JoinOut(calls[i].item.localPath))
  /\ calls' = [calls EXCEPT ![i].pc = "landed"]
  /\ UNCHANGED << entry, phase, dom, downloadedFiles, downloadQueue,
                  activeDownloads, loop, fetched, enqueued, errors >>

\* ensureDir and writeFile resolved: downloadedFiles.add; a css item goes on
\* into processCSSFile, which issues its readFile
WriteOk(i) ==
  /\ IoTurn /\ calls[i].pc \in {"writing", "landed"}
  /\ LET item == calls[i].item
     IN /\ IF calls[i].pc = "writing"
           THEN /\ files' = WriteFile(files, JoinOut(item.localPath), Downloaded(item))
                /\ writes' = CountWrite(writes, JoinOut(item.localPath))
           ELSE UNCHANGED << files, writes >>
        /\ downloadedFiles' = downloadedFiles \cup {item.url}
        /\ IF item.type = "css"
           THEN /\ calls' = [calls EXCEPT ![i].pc = "cssRead"]
                /\ activeDownloads' = AwaitProcessCSSFile(activeDownloads)
           ELSE Resolve(i)
  /\ UNCHANGED << entry, phase, dom, downloadQueue, loop, fetched, enqueued, errors >>

\* ensureDir or writeFile rejected
WriteFail(i) ==
  /\ IoTurn /\ calls[i].pc = "writing"
  /\ Catch(i)
  /\ UNCHANGED << entry, phase, dom, downloadedFiles, loop, files, writes, fetched, enqueued >>

\* processCSSFile: readFile resolved; the url(...) loop runs and the write
\* of updatedCSS is issued
CssReadOk(i) ==
  /\ IoTurn /\ calls[i].pc = "cssRead"
  /\ LET item == calls[i].item
         filePath == JoinOut(item.localPath)
         r == CssLoop(files[filePath].css, downloadQueue, files[filePath].css,
                      downloadedFiles, filePath, item.url)
     IN /\ downloadQueue' = r.queue
        /\ enqueued' = enqueued + (Len(r.queue) - Len(downloadQueue))
        /\ calls' = [calls EXCEPT ![i].pc = "cssWrite",
                                  ![i].cssContent = files[filePath].css,
                                  ![i].updatedCSS = r.css]
  /\ UNCHANGED << entry, phase, dom, downloadedFiles, activeDownloads, loop,
                  files, writes, fetched, errors >>

\* processCSSFile: readFile rejected; its own catch block logs and
\* downloadAsset resolves normally
CssReadFail(i) ==
  /\ IoTurn /\ calls[i].pc = "cssRead"
  /\ Resolve(i)
  /\ errors' = errors \cup {[what |-> "css", url |-> calls[i].item.url]}
  /\ UNCHANGED << entry, phase, dom, downloadedFiles, downloadQueue, loop,
                  files, writes, fetched, enqueued >>

\* what the writeFile of processCSSFile puts on disk
Rewritten(call) == Content("css", call.item.url, call.updatedCSS, << >>)

\* processCSSFile: the writeFile of updatedCSS puts its bytes on disk
CssWriteLand(i) ==
  /\ IoTurn /\ calls[i].pc = "cssWrite" /\ Contended(i)
  /\ files' = WriteFile(files, JoinOut(calls[i].item.localPath), Rewritten(calls[i]))
  /\ writes' = CountWrite(writes, JoinOut(calls[i].item.localPath))
  /\ calls' = [calls EXCEPT ![i].pc = "cssLanded"]
  /\ UNCHANGED << entry, phase, dom, downloadedFiles, downloadQueue,
                  activeDownloads, loop, fetched, enqueued, errors >>

\* processCSSFile: writeFile of updatedCSS resolved
CssWriteOk(i) ==
  /\ IoTurn /\ calls[i].pc \in {"cssWrite", "cssLanded"}
  /\ IF calls[i].pc = "cssWrite"
     THEN /\ files' = WriteFile(files, JoinOut(calls[i].item.localPath),
                                Rewritten(calls[i]))
          /\ writes' = CountWrite(writes, JoinOut(calls[i].item.localPath))
     ELSE UNCHANGED << files, writes >>
  /\ Resolve(i)
  /\ UNCHANGED << entry, phase, dom, downloadedFiles, downloadQueue, loop,
                  fetched, enqueued, errors >>

\* processCSSFile: writeFile of updatedCSS rejected; its own catch block logs
CssWriteFail(i) ==
  /\ IoTurn /\ calls[i].pc = "cssWrite"
  /\ Resolve(i)
  /\ errors' = errors \cup {[what |-> "css", url |-> calls[i].item.url]}
  /\ UNCHANGED << entry, phase, dom, downloadedFiles, downloadQueue, loop,
                  files, writes, fetched, enqueued >>

Next ==
  \/ EnsureDirOk
  \/ EnsureDirFail
  \/ PageFetchFail
  \/ PageFetchOk
  \/ PageSaveOk
  \/ PageSaveFail
  \/ StartDownload
  \/ Sleep
  \/ Wake
  \/ LoopExit
  \/ \E i \in 1..Len(calls) : FetchOk(i)
  \/ \E i \in 1..Len(calls) : FetchFail(i)
  \/ \E i \in 1..Len(calls) : WriteLand(i)
  \/ \E i \in 1..Len(calls) : WriteOk(i)
  \/ \E i \in 1..Len(calls) : WriteFail(i)
  \/ \E i \in 1..Len(calls) : CssReadFail(i)
  \/ \E i \in 1..Len(calls) : CssReadOk(i)
  \/ \E i \in 1..Len(calls) : CssWriteLand(i)
  \/ \E i \in 1..Len(calls) : CssWriteOk(i)
  \/ \E i \in 1..Len(calls) : CssWriteFail(i)

Spec == Init /\ [][Next]_vars

\* the steps of clone(), downloadPage() and processDownloadQueue()
Main ==
  \/ EnsureDirOk \/ EnsureDirFail
  \/ PageFetchFail \/ PageFetchOk
  \/ PageSaveOk \/ PageSaveFail
  \/ StartDownload \/ Sleep \/ Wake \/ LoopExit

\* the completion of a pending network request or file operation
Completion ==
  \E i \in 1..Len(calls) :
    \/ FetchOk(i) \/ FetchFail(i) \/ WriteOk(i) \/ WriteFail(i)
    \/ CssReadFail(i) \/ CssReadOk(i) \/ CssWriteOk(i) \/ CssWriteFail(i)
    \/ WriteLand(i) \/ CssWriteLand(i)

\* The event loop runs every ready callback: the main path always goes on,
\* and every network request and file operation eventually resolves or
\* rejects and has its callback run in one of the turns in which the polling
\* loop sleeps.
FairSpec == Spec /\ WF_vars(Main) /\ SF_vars(Completion)

\* ------------------------------------------------------------------------
\* Properties
\* ------------------------------------------------------------------------
\* number of axios.get requests downloadAsset has issued for a URL
Fetches(url) == Count(fetched, url)

\* the calls whose promise is not yet resolved
Unsettled ==
  {i \in 1..Len(calls) : calls[i].pc \notin {"returned", "settled", "caught"}}

\* the calls whose .finally callback has not yet run
NotFinalized == {i \in 1..Len(calls) : calls[i].pc \notin {"settled", "caught"}}

\* the calls whose axios.get is in flight
InFlight == {i \in 1..Len(calls) : calls[i].pc = "fetching"}

\* C1: no URL is fetched over the network more than once; a page that
\* references the same stylesheet URL from two elements causes exactly one
\* fetch of it.
C1_NoDuplicateFetch ==
  \A i, j \in 1..Len(fetched) : fetched[i] = fetched[j] => i = j

\* C2 as stated: activeDownloads equals the number of downloadAsset calls
\* started and not yet settled, and lies between 0 and maxConcurrent.
C2_ActiveEqualsUnsettled ==
  /\ activeDownloads = Cardinality(Unsettled)
  /\ 0 <= activeDownloads /\ activeDownloads <= maxConcurrent

\* C2 as amended: activeDownloads equals the number of downloadAsset calls
\* started whose .finally callback has not yet run, which is at least the
\* number of unsettled calls; it lies between 0 and maxConcurrent, so at no
\* instant are more than maxConcurrent fetches in flight.
C2_ActiveEqualsNotFinalized ==
  /\ activeDownloads = Cardinality(NotFinalized)
  /\ Cardinality(Unsettled) <= activeDownloads
  /\ 0 <= activeDownloads /\ activeDownloads <= maxConcurrent
  /\ Cardinality(InFlight) <= maxConcurrent

\* the ceiling is reached with work still queued
C2_Witness ==
  /\ activeDownloads = maxConcurrent
  /\ Cardinality(InFlight) = maxConcurrent
  /\ Len(downloadQueue) > 0

\* the url(...) references call i found that resolve to a URL
FoundUrls(i) ==
  {NewURL(calls[i].cssContent[k].ref, calls[i].item.url) :
     k \in {n \in 1..Len(calls[i].cssContent) : calls[i].cssContent[n].ref.valid}}

\* C3: when clone() reports completion, every url() reference found in a
\* stylesheet that was downloaded during the drain has had a fetch of its
\* resolved URL issued, or that URL is in downloadedFiles.
C3_FixpointDraining ==
  phase = "done" =>
    \A i \in 1..Len(calls) : \A u \in FoundUrls(i) :
      Fetches(u) > 0 \/ u \in downloadedFiles

\* completion after a stylesheet's reference was fetched although the queue
\* was empty when the stylesheet was started
C3_Witness ==
  /\ phase = "done" /\ entry = "e2e"
  /\ \E i \in 1..Len(calls) : \E u \in FoundUrls(i) :
       /\ Fetches(u) = 1
       /\ \A k \in 1..Len(PageBody(entry)) :
            NewURL(PageBody(entry)[k].ref, baseUrl) # u

\* C4: clone() reports completion only with downloadQueue empty and
\* activeDownloads 0, and with no downloadAsset call left that could still
\* enqueue an item or start a fetch.
C4_DoneIsQuiescent ==
  phase = "done" =>
    /\ downloadQueue = << >>
    /\ activeDownloads = 0
    /\ NotFinalized = {}

\* completion after downloads have run
C4_Witness == phase = "done" /\ Len(calls) >= 3 /\ enqueued = Len(calls)

\* the fetch of the entry page failed
EntryFetchFailed == [what |-> "page-fetch", url |-> baseUrl] \in errors

\* C5: if the fetch of the entry page fails, clone() ends in failure and the
\* clone is never reported as completed.
C5_EntryFailureIsFatal == EntryFetchFailed => phase # "done"

\* C6: if the fetch of the entry page fails, no asset fetch is ever started,
\* downloadQueue stays empty and no file is written below the output
\* directory.
C6_EntryFailureLeavesNothing ==
  EntryFetchFailed =>
    /\ fetched = << >>
    /\ calls = << >>
    /\ downloadQueue = << >>
    /\ enqueued = 0
    /\ DOMAIN files = {}

\* the run has ended after a failed fetch of an entry page that holds assets
C6_Witness ==
  /\ EntryFetchFailed
  /\ loop = "exited"
  /\ FindAssets(PageBody(entry)) # << >>

\* the three asset URLs of the end-to-end scenario
E2E_SCss == SiteUrl(<<"/", "s", ".", "css">>)

E2E_PicPng == SiteUrl(<<"/", "pic", ".", "png">>)

E2E_BgPng == SiteUrl(<<"/", "bg", ".", "png">>)

\* C7: for the entry page with <link href="/s.css"> and <img src="pic.png">,
\* where /s.css holds url(bg.png), and with every fetch and file operation
\* succeeding: no URL is ever fetched twice, and at completion exactly
\* s.css, pic.png and bg.png have been fetched, index.html holds
\* href="./s.css" and src="./pic.png", and s.css on disk holds url("bg.png").
C7_EndToEnd ==
  entry = "e2e" /\ errors = {} =>
    /\ \A i, j \in 1..Len(fetched) : fetched[i] = fetched[j] => i = j
    /\ phase = "done" =>
         /\ Len(fetched) = 3
         /\ {fetched[i] : i \in 1..Len(fetched)} = {E2E_SCss, E2E_PicPng, E2E_BgPng}
         /\ <<"index", ".", "html">> \in DOMAIN files
         /\ files[<<"index", ".", "html">>].kind = "page"
         /\ files[<<"index", ".", "html">>].dom =
              << Elem("link", PathStr(<<".", "/", "s", ".", "css">>), << >>),
                 Elem("img", PathStr(<<".", "/", "pic", ".", "png">>), << >>) >>
         /\ <<"s", ".", "css">> \in DOMAIN files
         /\ files[<<"s", ".", "css">>].css =
              << CssUrl(PathStr(<<"bg", ".", "png">>), TRUE) >>
         /\ {<<"pic", ".", "png">>, <<"bg", ".", "png">>} \subseteq DOMAIN files

\* the end-to-end scenario has completed without any failure
C7_Witness == entry = "e2e" /\ errors = {} /\ phase = "done"

\* C8: a URL is inserted into downloadedFiles when its item is enqueued, so
\* every queued URL is in downloadedFiles and downloadQueue never holds two
\* items with the same URL.
C8_InsertAtEnqueue ==
  /\ \A i \in 1..Len(downloadQueue) : downloadQueue[i].url \in downloadedFiles
  /\ \A i, j \in 1..Len(downloadQueue) :
       downloadQueue[i].url = downloadQueue[j].url => i = j

\* a step in which the download of call i fails: its axios.get or its write
\* rejects and the catch block of downloadAsset runs
FailureOf(i) ==
  /\ calls[i].pc \in {"fetching", "writing"}
  /\ calls'[i].pc = "caught"

\* some asset download has failed
SomeAssetFailed == \E i \in 1..Len(calls) : calls[i].pc = "caught"

\* C9: an asset download failure is isolated.  The failing step gives back
\* exactly one slot of activeDownloads and changes neither the queue, the
\* requests issued, the files, downloadedFiles nor any other call; the
\* failed call never acts again; every item enqueued is still started and
\* clone() still completes.
C9_FailureIsolated ==
  /\ [][\A i \in 1..Len(calls) :
          /\ FailureOf(i) =>
               /\ activeDownloads' = activeDownloads - 1
               /\ downloadQueue' = downloadQueue
               /\ fetched' = fetched
               /\ enqueued' = enqueued
               /\ files' = files
               /\ downloadedFiles' = downloadedFiles
               /\ Len(calls') = Len(calls)
               /\ \A j \in 1..Len(calls) : j # i => calls'[j] = calls[j]
          /\ calls[i].pc = "caught" => calls'[i] = calls[i]]_vars
  /\ [](phase = "done" => Len(calls) = enqueued)
  /\ (SomeAssetFailed ~> phase = "done")

\* completion after one download failed and a later one was written
C9_Witness ==
  /\ phase = "done"
  /\ \E i, j \in 1..Len(calls) :
       /\ i < j
       /\ calls[i].pc = "caught"
       /\ calls[j].pc = "settled"
       /\ JoinOut(calls[j].item.localPath) \in DOMAIN files

\* the css items processAssets enqueues for the entry page
PageCssAssets == FindByTag(PageBody(entry), "link", "css", 1)

RECURSIVE SumCssRefs(_)
SumCssRefs(assets) ==
  IF assets = << >> THEN 0
  ELSE (IF Head(assets).url.valid
        THEN Len(SiteCss(NewURL(Head(assets).url, baseUrl))) ELSE 0)
       + SumCssRefs(Tail(assets))

\* the references of the entry page plus the url() occurrences of the
\* stylesheets it links
EnqueueBound == Len(FindAssets(PageBody(entry))) + SumCssRefs(PageCssAssets)

\* C10: clone() eventually finishes, and the number of items ever enqueued
\* is bounded by the references of the page and of its stylesheets, also for
\* stylesheets that reference each other or themselves.
C10_Termination ==
  /\ [](enqueued <= EnqueueBound)
  /\ <>(phase \in {"done", "failed"})

\* completion for the page whose stylesheets reference each other and
\* themselves, with both stylesheets scanned
C10_Witness ==
  /\ phase = "done" /\ entry = "mutual"
  /\ \E i, j \in 1..Len(calls) :
       /\ i # j
       /\ calls[i].cssContent # << >>
       /\ calls[j].cssContent # << >>
       /\ calls[i].item.url # calls[j].item.url

\* ---------------------------------------------------------------------------
\* call i has a download that is still to write to the path of call k
WriteAhead(i, k) ==
  /\ i # k
  /\ calls[i].item.localPath = calls[k].item.localPath
  /\ calls[i].pc \in {"fetching", "writing", "landed"}

\* the writeFile of call i for its download completes in this step
WriteCompletes(i) ==
  /\ calls[i].pc \in {"writing", "landed"}
  /\ calls'[i].pc \in {"settled", "cssRead"}

\* C11: when two URLs resolve to the same local path, the file at that path
\* holds the content of the download whose write completed last: the write
\* that completes when no other download to the path is still to write
\* leaves its own content in the file.
C11_LastCompletedWins ==
  [][\A i \in 1..Len(calls) :
       (/\ WriteCompletes(i)
        /\ calls[i].item.type # "css"
        /\ ~ \E j \in 1..Len(calls) : WriteAhead(j, i))
       => files'[JoinOut(calls[i].item.localPath)].of = calls[i].item.url]_vars

\* ---------------------------------------------------------------------------
\* every work item made so far: queued, started or finished
Items ==
  {downloadQueue[k] : k \in 1..Len(downloadQueue)}
    \cup {calls[i].item : i \in 1..Len(calls)}

\* the local path of an item follows the three rules from the pathname of
\* its URL alone, and items whose URLs share the pathname share the path
LocalPathRules(it) ==
  LET p == it.url.pathname
      q == Tail(p)
  IN /\ p # << >> /\ Head(p) = "/"
     /\ it.localPath # << >>
     /\ (q = << >> \/ Last(p) = "/")
          => it.localPath = q \o <<"index", ".", "html">>
     /\ (q # << >> /\ Last(p) # "/" /\ extname(q) = << >>)
          => it.localPath = q \o <<".", "html">>
     /\ (q # << >> /\ Last(p) # "/" /\ extname(q) # << >>)
          => it.localPath = q
     /\ \A other \in Items :
          other.url.pathname = p => other.localPath = it.localPath

\* C12 as stated: the local path is a function of the pathname alone (one
\* leading '/' stripped, 'index.html' appended to an empty or directory
\* path, '.html' appended when there is no extension, query and fragment
\* without effect), it is never empty and it never begins with '/'.
C12_LocalPathNeverAbsolute ==
  \A it \in Items : LocalPathRules(it) /\ Head(it.localPath) # "/"

\* C12, amended: the same, except that the local path begins with '/'
\* exactly when the pathname of the URL begins with '//'.
C12_LocalPathOfPathname ==
  \A it \in Items :
    /\ LocalPathRules(it)
    /\ Head(it.localPath) = "/"
         <=> (Len(it.url.pathname) >= 2 /\ it.url.pathname[2] = "/")

\* the page whose references are /about, //d.png and /docs/?p=1#top has been
\* cloned: about.html, /d.png and docs/index.html are the local paths
C12_Witness ==
  /\ phase = "done" /\ entry = "slashes"
  /\ {calls[i].item.localPath : i \in 1..Len(calls)}
       = { <<"about", ".", "html">>,
           <<"/", "d", ".", "png">>,
           <<"docs", "/", "index", ".", "html">> }
  /\ \E i \in 1..Len(calls) : calls[i].item.url.search = "?p=1"

\* ---------------------------------------------------------------------------
\* the number of fs.writeFile calls that have written filePath so far
WritesTo(filePath) == IF filePath \in DOMAIN writes THEN writes[filePath] ELSE 0

\* C13: for every URL in downloadedFiles, at most one write to that URL's
\* local path has occurred, counting every fs.writeFile (the rewrite of a
\* stylesheet by processCSSFile included).
C13_AtMostOneWrite ==
  \A url \in downloadedFiles : WritesTo(JoinOut(getLocalPath(url))) <= 1

\* ---------------------------------------------------------------------------
\* two distinct absolute URLs that differ in their fragment only
FragmentOnly(u, v) == u # v /\ [u EXCEPT !.hash = ""] = [v EXCEPT !.hash = ""]

\* C14: the dedup key is the URL without its fragment: references whose
\* URLs differ only in the fragment make one work item and one fetch, so no
\* two work items and no two fetches are of URLs that differ in the fragment
\* only.
C14_FragmentStrippedKey ==
  /\ \A a, b \in Items : ~ FragmentOnly(a.url, b.url)
  /\ \A k, l \in 1..Len(fetched) : ~ FragmentOnly(fetched[k], fetched[l])

\* ---------------------------------------------------------------------------
\* call i pushes the references of its stylesheet in this step
CssEnqueues(i) ==
  /\ calls[i].pc = "cssRead" /\ calls'[i].pc = "cssWrite"
  /\ Len(downloadQueue') > Len(downloadQueue)

\* C15: apart from the references of the entry page, an item is enqueued
\* only by the scan of a stylesheet whose download has been written (its
\* file exists and its URL is in downloadedFiles), while that download still
\* holds its slot in activeDownloads and the polling loop has not exited.
C15_CausalOrder ==
  [][(enqueued' > enqueued /\ phase' = phase)
       => \E i \in 1..Len(calls) :
            /\ CssEnqueues(i)
            /\ calls[i].item.type = "css"
            /\ calls[i].item.url \in downloadedFiles
            /\ WritesTo(JoinOut(calls[i].item.localPath)) >= 1
            /\ JoinOut(calls[i].item.localPath) \in DOMAIN files
            /\ i \in NotFinalized
            /\ activeDownloads = Cardinality(NotFinalized)
            /\ activeDownloads' = activeDownloads
            /\ loop # "exited"]_vars

\* the stylesheet of the page with one stylesheet and one image has pushed
\* the reference it found and still holds its slot
C15_Witness ==
  \E i \in 1..Len(calls) :
    /\ entry = "e2e"
    /\ calls[i].pc = "cssWrite"
    /\ calls[i].item.url \in downloadedFiles
    /\ \E k \in 1..Len(downloadQueue) :
         downloadQueue[k].url \in FoundUrls(i)
    /\ activeDownloads >= 1

\* ---------------------------------------------------------------------------
\* './' + getLocalPath of the URL a reference of the entry page resolves to
LocalRef(ref) == PathStr(<<".", "/">> \o getLocalPath(NewURL(ref, baseUrl)))

\* a reference of the entry page that names a URL
HoldsUrl(ref) == ref # EmptyStr /\ ref.valid

\* C16: after processAssets and rewriteLinks, every stylesheet href, script
\* src and image src that held a URL equals './' + the local path of that
\* URL, an image src that held none is as it was, and every srcset candidate
\* that held a URL is replaced by the local path of that candidate.
C16_OwnLocalPath ==
  dom # << >> =>
    \A k \in 1..Len(dom) :
      LET orig == PageBody(entry)[k]
      IN /\ (orig.tag \in {"link", "script", "img"} /\ HoldsUrl(orig.ref))
              => dom[k].ref = LocalRef(orig.ref)
         /\ (orig.tag = "img" /\ ~HoldsUrl(orig.ref))
              => dom[k].ref = orig.ref
         /\ orig.tag = "img"
              => /\ Len(dom[k].srcset) = Len(orig.srcset)
                 /\ \A n \in 1..Len(orig.srcset) :
                      HoldsUrl(orig.srcset[n])
                        => dom[k].srcset[n] \in
                             { LocalRef(orig.srcset[n]),
                               PathStr(getLocalPath(NewURL(orig.srcset[n], baseUrl))) }

\* ---------------------------------------------------------------------------
\* the writeFile of index.html in downloadPage was rejected
EntrySaveFailed == [what |-> "page-save", url |-> baseUrl] \in errors

\* C17: a failure to write index.html is fatal: clone() does not go on to
\* drain the download queue (no download is started) and does not report
\* completion.
C17_EntrySaveFailureIsFatal ==
  EntrySaveFailed => Len(calls) = 0 /\ phase # "done"

\* ---------------------------------------------------------------------------
\* the URLs the <a href> elements of the entry page resolve to
LinkUrls ==
  {NewURL(PageBody(entry)[k].ref, baseUrl) :
     k \in {n \in 1..Len(PageBody(entry)) :
              PageBody(entry)[n].tag = "a" /\ HoldsUrl(PageBody(entry)[n].ref)}}

\* the URLs the stylesheet, script and image references of the entry page
\* resolve to, srcset candidates included
AssetUrls ==
  LET d == PageBody(entry)
  IN {NewURL(d[k].ref, baseUrl) :
        k \in {n \in 1..Len(d) : d[n].tag \in {"link", "script", "img"}
                                   /\ HoldsUrl(d[n].ref)}}
     \cup UNION {{NewURL(d[k].srcset[n], baseUrl) :
                    n \in {m \in 1..Len(d[k].srcset) : HoldsUrl(d[k].srcset[m])}} :
                 k \in {n \in 1..Len(d) : d[n].tag = "img"}}

\* the URLs that appear as hyperlink targets only: not among the assets of
\* the page nor among the references found in a stylesheet
LinkOnlyUrls ==
  (LinkUrls \ AssetUrls) \ UNION {FoundUrls(i) : i \in 1..Len(calls)}

\* the step of downloadPage that runs processAssets and rewriteLinks
PageProcessed == phase # "savingPage" /\ phase' = "savingPage"

\* C18: hyperlinks are rewritten but never scheduled.  The pass over the
\* page leaves downloadedFiles and activeDownloads alone and leaves in
\* downloadQueue what processAssets put there, and no URL that appears only
\* as the target of an <a href> is ever a work item or fetched.
C18_LinksNeverScheduled ==
  /\ [](\A url \in LinkOnlyUrls :
          /\ \A it \in Items : it.url # url
          /\ Fetches(url) = 0)
  /\ [][PageProcessed =>
          /\ downloadedFiles' = downloadedFiles
          /\ activeDownloads' = activeDownloads
          /\ \A k \in 1..Len(downloadQueue') :
               downloadQueue'[k].url \in AssetUrls]_vars

\* the page with a hyperlink to /about between two stylesheet links has been
\* cloned: the hyperlink is rewritten, the stylesheets were downloaded
C18_Witness ==
  /\ phase = "done" /\ entry = "dup"
  /\ Len(dom) >= 2
  /\ dom[2].tag = "a"
  /\ dom[2].ref = PathStr(<<".", "/", "about", ".", "html">>)
  /\ SiteUrl(<<"/", "about">>) \in LinkOnlyUrls
  /\ Len(calls) >= 2 /\ errors = {}

\* ---------------------------------------------------------------------------
\* the calls in flight (fetching or writing) and the calls that failed
Pending ==
  {i \in 1..Len(calls) : calls[i].pc \in {"fetching", "writing", "landed", "caught"}}

\* a URL enters downloadedFiles only in the step in which a successful write
\* of that resource to its local path completes
AddedOnWrite ==
  \A url \in downloadedFiles' \ downloadedFiles :
    \/ /\ url = baseUrl /\ phase = "savingPage"
       /\ IndexHtml \in DOMAIN files' /\ files'[IndexHtml].of = baseUrl
    \/ \E i \in 1..Len(calls) :
         /\ WriteCompletes(i) /\ calls[i].item.url = url
         /\ JoinOut(calls[i].item.localPath) \in DOMAIN files'

\* C19 as stated: a URL is in downloadedFiles only if a write of the
\* resource completed successfully, and the URL of an item that is queued,
\* in flight or failed is not in downloadedFiles.
C19_PendingNeverDownloaded ==
  /\ [][AddedOnWrite]_vars
  /\ [](/\ \A k \in 1..Len(downloadQueue) : downloadQueue[k].url \notin downloadedFiles
        /\ \A i \in Pending : calls[i].item.url \notin downloadedFiles)

\* ---------------------------------------------------------------------------
\* downloadPage has written the rewritten entry page to index.html
EntrySaved ==
  /\ phase \in {"draining", "done"}
  /\ ~EntryFetchFailed /\ ~EntrySaveFailed

\* C20: once the rewritten entry page has been saved, index.html is written
\* by no asset download: it has been written once and it holds the rewritten
\* entry page, up to and at completion.
C20_IndexHtmlKept ==
  EntrySaved =>
    /\ IndexHtml \in DOMAIN files
    /\ files[IndexHtml] = Content("page", baseUrl, << >>, dom)
    /\ WritesTo(IndexHtml) = 1

====
